---- MODULE Spec2Model ----
(* Model of the Financeiro store of src/app.py: the in-memory lists of       *)
(* Medico and Atendimento objects, the sqlite database they are saved to,   *)
(* and the store's operations.  Medico objects live in a heap and are named *)
(* by their address (uid), because an Atendimento keeps a reference to its  *)
(* Medico object even after the object left the list of doctors.            *)
EXTENDS Integers, Sequences, FiniteSets, TLC

\* ---------------------------------------------------------------- bounds
MaxMedicos == 2       \* Medico objects in the list of doctors at once
MaxAtend == 2         \* Atendimento objects held in memory at once

\* ---------------------------------------------------------------- inputs
Nomes == {"a"}
Percentuais == {20, 50}
Valores == {100}
NoNome == "None"      \* nome=None of atualizar_medico
NoPerc == -1          \* percentual_repasse=None of atualizar_medico
Ids == 1..(MaxMedicos + 1)

VARIABLES heap, medicos, atendimentos, db, locked, op, ret, returned

vars == <<heap, medicos, atendimentos, db, locked, op, ret, returned>>

\* ---------------------------------------------------------------- helpers
Range(s) == {s[i] : i \in 1..Len(s)}

Min(S) == CHOOSE x \in S : \A y \in S : x <= y

RECURSIVE Ascending(_)
Ascending(S) == IF S = {} THEN <<>>
                ELSE <<Min(S)>> \o Ascending(S \ {Min(S)})

RemoveAt(s, i) == SubSeq(s, 1, i - 1) \o SubSeq(s, i + 1, Len(s))

\* class Medico: a fresh object
Medico(id, nome, percentual_repasse) ==
    [id |-> id, nome |-> nome, percentual_repasse |-> percentual_repasse]

\* class Atendimento: medico is the address of a Medico object
Atendimento(id, medico, valor) ==
    [id |-> id, medico |-> medico, valor |-> valor]

\* Atendimento.calcular_repasse, on heap h.  The input domains are multiples
\* of 100 and whole percentages, for which valor * (p / 100) is exact.
calcular_repasse(h, a) == (a.valor * h[a.medico].percentual_repasse) \div 100

\* next((m for m in ms if m.id == medico_id), None); 0 stands for None
FirstWithId(h, ms, medico_id) ==
    LET hits == {i \in 1..Len(ms) : h[ms[i]].id = medico_id}
    IN IF hits = {} THEN 0 ELSE ms[Min(hits)]

\* Variant: the last doctor of the list with the id, not the first
obter_medico_por_id_last(medico_id) ==
    LET hits == {i \in 1..Len(medicos) : heap[medicos[i]].id = medico_id}
    IN IF hits = {} THEN 0
       ELSE medicos[CHOOSE i \in hits : \A j \in hits : j <= i]

obter_medico_por_id(medico_id) == FirstWithId(heap, medicos, medico_id)

listar_medicos == medicos

listar_atendimentos == atendimentos

\* sum(f(a) for a in ats), added up in list order
RECURSIVE SumRepasse(_, _)
SumRepasse(h, ats) ==
    IF ats = <<>> THEN 0
    ELSE calcular_repasse(h, Head(ats)) + SumRepasse(h, Tail(ats))

RECURSIVE SumValor(_)
SumValor(ats) ==
    IF ats = <<>> THEN 0 ELSE Head(ats).valor + SumValor(Tail(ats))

\* Variant: only the atendimentos of listed doctors are added up
relatorio_financeiro_listed(h, ms, ats) ==
    LET of_listed == SelectSeq(ats, LAMBDA a : a.medico \in Range(ms))
        total == SumValor(of_listed)
        total_repasse == SumRepasse(h, of_listed)
    IN [faturamento_total |-> total,
        total_repasse |-> total_repasse,
        lucro_liquido |-> total - total_repasse,
        qtd_atendimentos |-> Len(ats),
        qtd_medicos |-> Len(ms)]

\* relatorio_financeiro: the dict it returns for the lists ms and ats
relatorio_financeiro(h, ms, ats) ==
    LET total == SumValor(ats)
        total_repasse == SumRepasse(h, ats)
    IN [faturamento_total |-> total,
        total_repasse |-> total_repasse,
        lucro_liquido |-> total - total_repasse,
        qtd_atendimentos |-> Len(ats),
        qtd_medicos |-> Len(ms)]

\* ---------------------------------------------------------------- database
\* The rows salvar_dados inserts for the in-memory lists
MedicoRows(h, ms) ==
    {[id |-> h[ms[i]].id, nome |-> h[ms[i]].nome,
      percentual_repasse |-> h[ms[i]].percentual_repasse] : i \in 1..Len(ms)}

AtendimentoRows(h, ats) ==
    {[id |-> ats[i].id, medico_id |-> h[ats[i].medico].id,
      valor |-> ats[i].valor] : i \in 1..Len(ats)}

\* id INTEGER PRIMARY KEY of both tables: an INSERT of a second row with the
\* same id fails
PrimaryKeysOk(h, ms, ats) ==
    /\ \A i, j \in 1..Len(ms) : h[ms[i]].id = h[ms[j]].id => i = j
    /\ \A i, j \in 1..Len(ats) : ats[i].id = ats[j].id => i = j

\* salvar_dados: the outcome of one call.  exc = "" when it commits.  A call
\* that raises leaves the transaction uncommitted (no row changes) and its
\* connection unclosed; an unclosed connection with an open write
\* transaction keeps the database locked against later writers.
salvar_dados(h, ms, ats) ==
    IF locked
    THEN [db |-> db, locked |-> TRUE, exc |-> "OperationalError"]
    ELSE IF PrimaryKeysOk(h, ms, ats)
    THEN [db |-> [medicos |-> MedicoRows(h, ms),
                  atendimentos |-> AtendimentoRows(h, ats)],
          locked |-> FALSE, exc |-> ""]
    ELSE [db |-> db, locked |-> TRUE, exc |-> "IntegrityError"]

\* carregar_dados: the lists rebuilt from database d.  Rows come in rowid
\* (id) order; the new Medico objects get the addresses 1..n.
RowWithId(rows, id) == CHOOSE r \in rows : r.id = id

LoadedHeap(d) ==
    LET ids == Ascending({r.id : r \in d.medicos})
    IN [i \in 1..Len(ids) |->
          LET r == RowWithId(d.medicos, ids[i])
          IN Medico(r.id, r.nome, r.percentual_repasse)]

LoadedMedicos(d) == [i \in 1..Cardinality(d.medicos) |-> i]

\* Variant: medico_id is taken as a position in the list of doctors
RECURSIVE LinkRows_by_position(_, _, _, _)
LinkRows_by_position(h, ms, rows, ids) ==
    IF ids = <<>> THEN <<>>
    ELSE LET r == RowWithId(rows, Head(ids))
             medico == IF r.medico_id \in 1..Len(ms)
                       THEN ms[r.medico_id] ELSE 0
             rest == LinkRows_by_position(h, ms, rows, Tail(ids))
         IN IF medico # 0
            THEN <<Atendimento(r.id, medico, r.valor)>> \o rest
            ELSE rest

RECURSIVE LinkRows(_, _, _, _)
LinkRows(h, ms, rows, ids) ==
    IF ids = <<>> THEN <<>>
    ELSE LET r == RowWithId(rows, Head(ids))
             medico == FirstWithId(h, ms, r.medico_id)
             rest == LinkRows(h, ms, rows, Tail(ids))
         IN IF medico # 0
            THEN <<Atendimento(r.id, medico, r.valor)>> \o rest
            ELSE rest

LoadedAtendimentos(d) ==
    LinkRows(LoadedHeap(d), LoadedMedicos(d), d.atendimentos,
             Ascending({r.id : r \in d.atendimentos}))

\* ---------------------------------------------------------------- memory
\* Medico objects no list refers to any more are freed, and the addresses of
\* the others carry no meaning: after every operation the live objects are
\* renamed 1..n, the listed doctors first (in list order), then the
\* unlisted ones the atendimentos still refer to (in list order).
RECURSIVE Unlisted(_, _, _)
Unlisted(ms, ats, seen) ==
    IF ats = <<>> THEN <<>>
    ELSE LET u == Head(ats).medico
         IN IF u \in Range(ms) \cup seen
            THEN Unlisted(ms, Tail(ats), seen)
            ELSE <<u>> \o Unlisted(ms, Tail(ats), seen \cup {u})

Live(ms, ats) == ms \o Unlisted(ms, ats, {})

NewAddress(order, u) == CHOOSE i \in 1..Len(order) : order[i] = u

\* The in-memory state becomes (h, ms, ats), rt the doctors handed out
InMemory(h, ms, ats, rt) ==
    LET order == Live(ms, ats)
    IN /\ heap' = [i \in 1..Len(order) |-> h[order[i]]]
       /\ medicos' = [i \in 1..Len(ms) |-> NewAddress(order, ms[i])]
       /\ atendimentos' = [i \in 1..Len(ats) |->
               [ats[i] EXCEPT !.medico = NewAddress(order, @)]]
       /\ returned' = {NewAddress(order, u) : u \in rt \cap Range(ms)}

\* ---------------------------------------------------------------- state
\* Financeiro.__init__ on a database that does not exist yet
Init ==
    /\ heap = <<>>
    /\ medicos = <<>>
    /\ atendimentos = <<>>
    /\ db = [medicos |-> {}, atendimentos |-> {}]
    /\ locked = FALSE
    /\ op = "init"
    /\ ret = "None"
    /\ returned = {}

\* The effect of a call that ends in salvar_dados on db, locked and ret:
\* the call returns value unless salvar_dados raises
Saved(h, ms, ats, value) ==
    LET s == salvar_dados(h, ms, ats)
    IN /\ db' = s.db
       /\ locked' = s.locked
       /\ ret' = IF s.exc = "" THEN value ELSE s.exc

\* Variant: the new id is the largest listed id plus one
cadastrar_medico_max(nome, percentual_repasse) ==
    /\ Len(medicos) < MaxMedicos
    /\ LET listed == {heap[medicos[i]].id : i \in 1..Len(medicos)}
           medico_id == IF listed = {} THEN 1
                        ELSE (CHOOSE x \in listed :
                                 \A y \in listed : y <= x) + 1
           medico == Len(heap) + 1
           h == Append(heap, Medico(medico_id, nome, percentual_repasse))
           ms == Append(medicos, medico)
       IN /\ Saved(h, ms, atendimentos, "Medico")
          /\ InMemory(h, ms, atendimentos,
                      IF salvar_dados(h, ms, atendimentos).exc = ""
                      THEN returned \cup {medico} ELSE returned)
    /\ op' = "cadastrar_medico"

cadastrar_medico(nome, percentual_repasse) ==
    /\ Len(medicos) < MaxMedicos
    /\ LET medico_id == Len(medicos) + 1
           medico == Len(heap) + 1
           h == Append(heap, Medico(medico_id, nome, percentual_repasse))
           ms == Append(medicos, medico)
       IN /\ Saved(h, ms, atendimentos, "Medico")
          /\ InMemory(h, ms, atendimentos,
                      IF salvar_dados(h, ms, atendimentos).exc = ""
                      THEN returned \cup {medico} ELSE returned)
    /\ op' = "cadastrar_medico"

\* Variant: the doctor is replaced in the list by an updated copy
atualizar_medico_copy(medico_id, nome, percentual_repasse) ==
    /\ LET medico == obter_medico_por_id(medico_id)
       IN IF medico = 0
          THEN /\ ret' = "False"
               /\ UNCHANGED <<heap, medicos, atendimentos, returned,
                              db, locked>>
          ELSE LET copy == Len(heap) + 1
                   h == Append(heap, Medico(heap[medico].id,
                          IF nome # NoNome THEN nome ELSE heap[medico].nome,
                          IF percentual_repasse # NoPerc
                          THEN percentual_repasse
                          ELSE heap[medico].percentual_repasse))
                   ms == [i \in 1..Len(medicos) |->
                            IF medicos[i] = medico THEN copy ELSE medicos[i]]
               IN /\ Saved(h, ms, atendimentos, "True")
                  /\ InMemory(h, ms, atendimentos, returned)
    /\ op' = "atualizar_medico"

atualizar_medico(medico_id, nome, percentual_repasse) ==
    /\ LET medico == obter_medico_por_id(medico_id)
       IN IF medico = 0
          THEN /\ ret' = "False"
               /\ UNCHANGED <<heap, medicos, atendimentos, returned,
                              db, locked>>
          ELSE LET h == [heap EXCEPT
                          ![medico].nome =
                              IF nome # NoNome THEN nome ELSE @,
                          ![medico].percentual_repasse =
                              IF percentual_repasse # NoPerc
                              THEN percentual_repasse ELSE @]
               IN /\ Saved(h, medicos, atendimentos, "True")
                  /\ InMemory(h, medicos, atendimentos, returned)
    /\ op' = "atualizar_medico"

remover_medico(medico_id) ==
    /\ LET medico == obter_medico_por_id(medico_id)
       IN IF medico # 0
          THEN LET ms == RemoveAt(medicos,
                            Min({i \in 1..Len(medicos) : medicos[i] = medico}))
               IN /\ Saved(heap, ms, atendimentos, "True")
                  /\ InMemory(heap, ms, atendimentos, returned \ {medico})
          ELSE /\ ret' = "False"
               /\ UNCHANGED <<heap, medicos, atendimentos, returned,
                              db, locked>>
    /\ op' = "remover_medico"

\* Variant: medico_id is taken as a position in the list of doctors
registrar_atendimento_by_position(medico_id, valor) ==
    /\ LET medico == IF medico_id \in 1..Len(medicos)
                     THEN medicos[medico_id] ELSE 0
       IN IF medico = 0
          THEN /\ ret' = "None"
               /\ UNCHANGED <<heap, medicos, atendimentos, returned,
                              db, locked>>
          ELSE /\ Len(atendimentos) < MaxAtend
               /\ LET atendimento_id == Len(atendimentos) + 1
                      ats == Append(atendimentos,
                               Atendimento(atendimento_id, medico, valor))
                  IN /\ Saved(heap, medicos, ats, "Atendimento")
                     /\ InMemory(heap, medicos, ats, returned)
    /\ op' = "registrar_atendimento"

registrar_atendimento(medico_id, valor) ==
    /\ LET medico == obter_medico_por_id(medico_id)
       IN IF medico = 0
          THEN /\ ret' = "None"
               /\ UNCHANGED <<heap, medicos, atendimentos, returned,
                              db, locked>>
          ELSE /\ Len(atendimentos) < MaxAtend
               /\ LET atendimento_id == Len(atendimentos) + 1
                      ats == Append(atendimentos,
                               Atendimento(atendimento_id, medico, valor))
                  IN /\ Saved(heap, medicos, ats, "Atendimento")
                     /\ InMemory(heap, medicos, ats, returned)
    /\ op' = "registrar_atendimento"

\* The read operations, as calls: they return a value and assign nothing
Call_obter_medico_por_id(medico_id) ==
    /\ op' = "obter_medico_por_id"
    /\ ret' = IF obter_medico_por_id(medico_id) = 0 THEN "None" ELSE "Medico"
    /\ UNCHANGED <<heap, medicos, atendimentos, db, locked, returned>>

Call_listar_medicos ==
    /\ op' = "listar_medicos"
    /\ ret' = "list"
    /\ UNCHANGED <<heap, medicos, atendimentos, db, locked, returned>>

Call_listar_atendimentos ==
    /\ op' = "listar_atendimentos"
    /\ ret' = "list"
    /\ UNCHANGED <<heap, medicos, atendimentos, db, locked, returned>>

\* Variant: the report first refreshes the lists from the database
Call_relatorio_financeiro_refresh ==
    /\ op' = "relatorio_financeiro"
    /\ ret' = "dict"
    /\ InMemory(LoadedHeap(db), LoadedMedicos(db), LoadedAtendimentos(db), {})
    /\ UNCHANGED <<db, locked>>

Call_relatorio_financeiro ==
    /\ op' = "relatorio_financeiro"
    /\ ret' = "dict"
    /\ UNCHANGED <<heap, medicos, atendimentos, db, locked, returned>>

\* Variant: the lists just loaded are written back to the database
Reload_and_save ==
    /\ InMemory(LoadedHeap(db), LoadedMedicos(db), LoadedAtendimentos(db), {})
    /\ locked' = FALSE
    /\ op' = "carregar_dados"
    /\ ret' = "None"
    /\ db' = [medicos |-> MedicoRows(LoadedHeap(db), LoadedMedicos(db)),
              atendimentos |-> AtendimentoRows(LoadedHeap(db),
                                               LoadedAtendimentos(db))]

\* The process is started again: financeiro = Financeiro() runs
\* _inicializar_banco (the tables exist) and carregar_dados.  No object or
\* connection of the previous process survives.
Reload ==
    /\ InMemory(LoadedHeap(db), LoadedMedicos(db), LoadedAtendimentos(db), {})
    /\ locked' = FALSE
    /\ op' = "carregar_dados"
    /\ ret' = "None"
    /\ UNCHANGED db

\* The connection a failed salvar_dados left open is finalized by the
\* interpreter: its transaction is rolled back and the lock released.
FinalizeConnection ==
    /\ locked
    /\ locked' = FALSE
    /\ UNCHANGED <<heap, medicos, atendimentos, db, op, ret, returned>>

Next ==
    \/ \E nome \in Nomes, p \in Percentuais : cadastrar_medico(nome, p)
    \/ \E id \in Ids, nome \in Nomes \cup {NoNome},
          p \in Percentuais \cup {NoPerc} : atualizar_medico(id, nome, p)
    \/ \E id \in Ids : remover_medico(id)
    \/ \E id \in Ids, valor \in Valores : registrar_atendimento(id, valor)
    \/ \E id \in Ids : Call_obter_medico_por_id(id)
    \/ Call_listar_medicos
    \/ Call_listar_atendimentos
    \/ Call_relatorio_financeiro
    \/ Reload
    \/ FinalizeConnection

Spec == Init /\ [][Next]_vars

TypeOK ==
    /\ Len(medicos) <= MaxMedicos
    /\ Len(atendimentos) <= MaxAtend
    /\ medicos = [i \in 1..Len(medicos) |-> i]
    /\ \A i \in 1..Len(atendimentos) : atendimentos[i].medico \in 1..Len(heap)
    /\ returned \subseteq Range(medicos)
    /\ locked \in BOOLEAN


\* ---------------------------------------------------------------- claims
Snapshot == [medicos |-> MedicoRows(heap, medicos),
             atendimentos |-> AtendimentoRows(heap, atendimentos)]

Listed(a) == a.medico \in Range(medicos)

\* What a caller can see of the atendimentos: id, valor and the Medico object
AtendimentoView(h, ats) ==
    [i \in 1..Len(ats) |->
        [id |-> ats[i].id, valor |-> ats[i].valor, medico |-> h[ats[i].medico]]]

MedicoView(h, ms) == [i \in 1..Len(ms) |-> h[ms[i]]]

\* C1: no two doctors of the in-memory list have the same id.
C1_DoctorIdsUnique ==
    \A i, j \in 1..Len(medicos) :
        heap[medicos[i]].id = heap[medicos[j]].id => i = j

\* C2: every doctor that cadastrar_medico returned and remover_medico has
\* not removed is the doctor obter_medico_por_id finds for its id.
C2_GetReturnsRegistered ==
    \A d \in returned : obter_medico_por_id(heap[d].id) = d

\* C2 witness: a returned doctor shares its id with another listed doctor.
C2_Witness ==
    \E d \in returned : \E e \in Range(medicos) :
        e # d /\ heap[e].id = heap[d].id

\* C3: saving the in-memory state and loading it again yields the same
\* doctors and the same atendimentos, except the atendimentos whose doctor
\* was removed from the list.
C3_RoundTrip ==
    LET d == salvar_dados(heap, medicos, atendimentos).db
        h == LoadedHeap(d)
    IN /\ MedicoRows(h, LoadedMedicos(d)) = MedicoRows(heap, medicos)
       /\ AtendimentoRows(h, LoadedAtendimentos(d)) =
             {[id |-> atendimentos[i].id,
               medico_id |-> heap[atendimentos[i].medico].id,
               valor |-> atendimentos[i].valor] :
                 i \in {k \in 1..Len(atendimentos) : Listed(atendimentos[k])}}

\* C4: once a mutating call that found its doctor has ended, the database
\* holds exactly the rows of the in-memory lists.
C4_SnapshotIsMemory ==
    (/\ op \in {"cadastrar_medico", "atualizar_medico", "remover_medico",
                "registrar_atendimento"}
     /\ ret \notin {"False", "None"})
    => db = Snapshot

\* C5: a reload drops every atendimento whose doctor was removed from the
\* list: none of them is in the list of atendimentos afterwards.
C5_OrphansDropped ==
    [][op' = "carregar_dados" =>
         \A i \in 1..Len(atendimentos) :
            ~Listed(atendimentos[i]) =>
               \A j \in 1..Len(atendimentos') :
                  atendimentos'[j].id # atendimentos[i].id]_vars

\* C6: when atualizar_medico sets the percentual of a doctor, the repasse of
\* every atendimento of that doctor, unchanged itself, is its valor times
\* the new percentual over 100.
C6_PayoutFollowsPercentage ==
    [][\A id \in Ids, nome \in Nomes \cup {NoNome}, p \in Percentuais :
         (/\ op' = "atualizar_medico"
          /\ obter_medico_por_id(id) # 0
          /\ atualizar_medico(id, nome, p)) =>
            /\ Len(atendimentos') = Len(atendimentos)
            /\ \A i \in 1..Len(atendimentos) :
                  atendimentos[i].medico = obter_medico_por_id(id) =>
                     /\ atendimentos'[i].id = atendimentos[i].id
                     /\ atendimentos'[i].valor = atendimentos[i].valor
                     /\ calcular_repasse(heap', atendimentos'[i]) =
                           (atendimentos[i].valor * p) \div 100]_vars

\* C6 witness: an update succeeded while a listed doctor has an atendimento.
C6_Witness ==
    /\ op = "atualizar_medico"
    /\ ret = "True"
    /\ \E i \in 1..Len(atendimentos) : Listed(atendimentos[i])

\* C7: registrar_atendimento with an id no listed doctor has returns None
\* and changes neither list nor the database.
C7_UnknownDoctorRejected ==
    [][\A id \in Ids, valor \in Valores :
         (/\ op' = "registrar_atendimento"
          /\ obter_medico_por_id(id) = 0
          /\ registrar_atendimento(id, valor)) =>
            /\ ret' = "None"
            /\ AtendimentoView(heap', atendimentos')
                  = AtendimentoView(heap, atendimentos)
            /\ MedicoView(heap', medicos') = MedicoView(heap, medicos)
            /\ db' = db]_vars

\* C7 witness: a registration was refused although doctors are listed.
C7_Witness ==
    /\ op = "registrar_atendimento"
    /\ ret = "None"
    /\ medicos # <<>>

\* C8: cadastrar_medico does not raise: it returns the new doctor, the last
\* of the list, whose row is in the database.
C8_RegisterDoctorSucceeds ==
    op = "cadastrar_medico" =>
        /\ ret = "Medico"
        /\ medicos # <<>>
        /\ medicos[Len(medicos)] \in returned
        /\ heap[medicos[Len(medicos)]] \in db.medicos

\* C9: atualizar_medico does not raise: it returns False and changes nothing
\* when no doctor has the id; else it returns True and sets the given
\* fields of that doctor only.
C9_UpdateDoctor ==
    [][\A id \in Ids, nome \in Nomes \cup {NoNome},
          p \in Percentuais \cup {NoPerc} :
         (op' = "atualizar_medico" /\ atualizar_medico(id, nome, p)) =>
            LET m == obter_medico_por_id(id)
            IN IF m = 0
               THEN /\ ret' = "False"
                    /\ UNCHANGED <<heap, medicos, atendimentos, db>>
               ELSE /\ ret' = "True"
                    /\ UNCHANGED <<medicos, atendimentos>>
                    /\ Len(heap') = Len(heap)
                    /\ \A u \in 1..Len(heap) : u # m => heap'[u] = heap[u]
                    /\ heap'[m].id = heap[m].id
                    /\ heap'[m].nome =
                          IF nome = NoNome THEN heap[m].nome ELSE nome
                    /\ heap'[m].percentual_repasse =
                          IF p = NoPerc THEN heap[m].percentual_repasse
                          ELSE p]_vars

\* C10: remover_medico returns False and changes nothing when no doctor has
\* the id; else it returns True, takes that one doctor out of the list and
\* leaves the atendimentos as they are.
C10_RemoveDoctor ==
    [][\A id \in Ids :
         (op' = "remover_medico" /\ remover_medico(id)) =>
            LET m == obter_medico_por_id(id)
            IN IF m = 0
               THEN /\ ret' = "False"
                    /\ UNCHANGED <<heap, medicos, atendimentos, db>>
               ELSE /\ ret' = "True"
                    /\ MedicoView(heap', medicos') =
                          MedicoView(heap, RemoveAt(medicos,
                              Min({i \in 1..Len(medicos) : medicos[i] = m})))
                    /\ AtendimentoView(heap', atendimentos')
                          = AtendimentoView(heap, atendimentos)]_vars

\* C11: no two atendimentos of the in-memory list have the same id.
C11_AppointmentIdsUnique ==
    \A i, j \in 1..Len(atendimentos) :
        atendimentos[i].id = atendimentos[j].id => i = j

\* f[1] + ... + f[n]
RECURSIVE SumUpTo(_, _)
SumUpTo(f, n) == IF n = 0 THEN 0 ELSE f[n] + SumUpTo(f, n - 1)

Report == relatorio_financeiro(heap, medicos, atendimentos)

\* C12: the report's net is total billed minus total payout, total billed is
\* the sum of the valores and total payout the sum of valor times the
\* doctor's current percentual over 100; net is 0 without atendimentos; the
\* two counts are the lengths of the two lists.
C12_ReportTotals ==
    LET n == Len(atendimentos)
        billed == SumUpTo([i \in 1..n |-> atendimentos[i].valor], n)
        payout == SumUpTo([i \in 1..n |->
                     (atendimentos[i].valor
                        * heap[atendimentos[i].medico].percentual_repasse)
                     \div 100], n)
    IN /\ Report.lucro_liquido
             = Report.faturamento_total - Report.total_repasse
       /\ Report.faturamento_total = billed
       /\ Report.total_repasse = payout
       /\ (n = 0 => Report.lucro_liquido = 0)
       /\ Report.qtd_atendimentos = n
       /\ Report.qtd_medicos = Len(medicos)

\* C12 witness: a report over two atendimentos at different percentuais, one
\* of them of a doctor no longer listed.
C12_Witness ==
    /\ op = "relatorio_financeiro"
    /\ Len(atendimentos) = 2
    /\ \E i \in 1..Len(atendimentos) : ~Listed(atendimentos[i])
    /\ Report.lucro_liquido = 130

\* C13: right after a load every atendimento refers to a listed doctor whose
\* id is the medico_id of its row, and no row whose medico_id is the id of
\* no doctor row has been loaded.
C13_LoadedAreLinked ==
    op \in {"init", "carregar_dados"} =>
        /\ \A i \in 1..Len(atendimentos) :
              /\ Listed(atendimentos[i])
              /\ [id |-> atendimentos[i].id,
                  medico_id |-> heap[atendimentos[i].medico].id,
                  valor |-> atendimentos[i].valor] \in db.atendimentos
        /\ \A r \in db.atendimentos :
              (\A m \in db.medicos : m.id # r.medico_id) =>
                 \A i \in 1..Len(atendimentos) : atendimentos[i].id # r.id

\* C13 witness: a load that kept one atendimento and left a row out.
C13_Witness ==
    /\ op = "carregar_dados"
    /\ atendimentos # <<>>
    /\ \E r \in db.atendimentos : \A m \in db.medicos : m.id # r.medico_id

Ranked ==
    /\ \A i \in 1..Len(medicos) : heap[medicos[i]].id = i
    /\ \A i \in 1..Len(atendimentos) : atendimentos[i].id = i

\* C14: cadastrar_medico gives the new doctor the id (number of listed
\* doctors) + 1 and registrar_atendimento gives the new atendimento the id
\* (number of atendimentos) + 1; registrations that start from lists whose
\* k-th entry has id k leave them so.
C14_CountBasedIds ==
    [][/\ (/\ op' = "cadastrar_medico"
           /\ \E nome \in Nomes, p \in Percentuais :
                 cadastrar_medico(nome, p)) =>
              /\ Len(medicos') = Len(medicos) + 1
              /\ heap'[medicos'[Len(medicos')]].id = Len(medicos) + 1
              /\ (Ranked => Ranked')
       /\ (/\ op' = "registrar_atendimento"
           /\ ret' # "None"
           /\ \E id \in Ids, valor \in Valores :
                 registrar_atendimento(id, valor)) =>
              /\ Len(atendimentos') = Len(atendimentos) + 1
              /\ atendimentos'[Len(atendimentos')].id = Len(atendimentos) + 1
              /\ (Ranked => Ranked')]_vars

\* C14 witness: a registration gave a doctor the id of a listed doctor.
C14_Witness ==
    /\ op = "cadastrar_medico"
    /\ Len(medicos) = 2
    /\ heap[medicos[1]].id = 2
    /\ heap[medicos[2]].id = 2

\* C15: relatorio_financeiro, obter_medico_por_id, listar_medicos and
\* listar_atendimentos change neither list nor the database.
C15_ReadsChangeNothing ==
    [][op' \in {"relatorio_financeiro", "obter_medico_por_id",
                "listar_medicos", "listar_atendimentos"} =>
          UNCHANGED <<heap, medicos, atendimentos, db>>]_vars

\* C15 witness: a report was made while the lists differ from the database.
C15_Witness ==
    /\ op = "relatorio_financeiro"
    /\ db # Snapshot

\* C16: a reload leaves the database as it is, and a reload that follows a
\* reload leaves the lists as the first one made them.
C16_ReloadIdempotent ==
    [][op' = "carregar_dados" =>
          /\ db' = db
          /\ (op = "carregar_dados" =>
                 UNCHANGED <<heap, medicos, atendimentos>>)]_vars

\* C16 witness: a reload built lists that are not what the database holds.
C16_Witness ==
    /\ op = "carregar_dados"
    /\ db # Snapshot

====
